---- MODULE Spec2Model ----
(***************************************************************************)
(* dhcp-clients: the DHCP handshake retry loop (client.py) and the         *)
(* concurrent multi-client simulator (simulator.py).                       *)
(*                                                                         *)
(* Four specifications share the module:                                   *)
(*   SpecHS  one direct call perform_handshake(interface, timeout=,        *)
(*           retries=) against a transport that answers arbitrarily;       *)
(*   Spec    one call simulate_dhcp_clients(...): the coordinator thread,  *)
(*           the ThreadPoolExecutor's workers and an external interrupt;   *)
(*   LiveSpec the same call without the interrupt, with fair scheduling;   *)
(*   SpecGen the generator _iter_mac_addresses(count, mac_prefix,          *)
(*           random_seed), consumed to its end twice with the same         *)
(*           arguments while other code draws from the random module.      *)
(***************************************************************************)
EXTENDS Integers, Sequences, FiniteSets, TLC

\* ---------------------------------------------------------------- bounds
\* Largest retries argument explored (retries ranges over 0..MaxRetries).
MaxRetries == 2
\* Largest count argument explored (count ranges over 0..MaxCount).
MaxCount == 4
\* Largest concurrency argument explored (0..MaxConcurrency).
MaxConcurrency == 2

\* --------------------------------------------------------- sample values
\* Python's None where a string may stand (interface names).
None == "None"
\* No exception, no result yet.
Nothing == [kind |-> "none", msg |-> ""]
\* Two of the 2^32 values random.randint(0, 0xFFFFFFFF) may return.
Xids == {0, 305419896}
\* What a BOOTP reply may carry: <<yiaddr, the "server_id" option>>; the
\* option is None when the reply has no DHCP layer or no such option.
Payloads == {<<"10.0.0.5", None>>, <<"10.0.0.6", "10.0.0.1">>}
\* Effective user ids: root and an unprivileged user.
Euids == {0, 1000}
\* The interface argument, and scapy's conf.iface.
Interfaces == {None, "eth0"}
ConfIfaces == {None, "lo"}

VARIABLES
    \* perform_handshake: arguments and environment
    euid, interface, conf_iface, retries,
    \* perform_handshake: locals
    hpc, iface, client_mac, attempt, xid, offer,
    \* perform_handshake: what it returned or raised
    result,
    \* history: every xid drawn, every frame sent and response received
    xids, trace,
    \* simulate_dhcp_clients: arguments
    count, concurrency, mac_prefix, random_seed,
    \* simulate_dhcp_clients: locals of the coordinator
    pc, produced, pending, successes, failures, raised,
    \* the executor's futures, by identity
    fut,
    \* history: futures in the order their handshakes completed, and in the
    \* order the coordinator took their outcomes
    completed, recorded,
    \* _iter_mac_addresses: arguments
    gen_count, gen_prefix, gen_seed,
    \* _iter_mac_addresses: where the generator stands, and its locals
    gpc, start_offset, base_value,
    \* which of the two calls is running; per call, the addresses yielded
    \* so far and how the generator ended
    call, yielded, gen_end,
    \* the state of the random module's shared generator
    global_rng

hsvars == <<euid, interface, conf_iface, retries, hpc, iface, client_mac,
            attempt, xid, offer, result, xids, trace>>
simvars == <<count, concurrency, mac_prefix, random_seed, pc, produced,
             pending, successes, failures, raised, fut, completed, recorded>>
genvars == <<gen_count, gen_prefix, gen_seed, gpc, start_offset, base_value,
             call, yielded, gen_end, global_rng>>
vars == <<euid, interface, conf_iface, retries, hpc, iface, client_mac,
          attempt, xid, offer, result, xids, trace,
          count, concurrency, mac_prefix, random_seed, pc, produced,
          pending, successes, failures, raised, fut, completed, recorded,
          gen_count, gen_prefix, gen_seed, gpc, start_offset, base_value,
          call, yielded, gen_end, global_rng>>

\* =====================================================================
\* client.py
\* =====================================================================

\* get_if_hwaddr(iface): the hardware address of the interface itself.
get_if_hwaddr(i) ==
    IF i = "eth0" THEN <<170, 187, 204, 0, 0, 1>> ELSE <<0, 0, 0, 0, 0, 0>>

\* What srp1 may hand back: nothing, a packet without the BOOTP layer, or a
\* BOOTP reply with some xid, some yiaddr and some server_id option (None:
\* no DHCP layer or no such option).
Responses ==
    {[kind |-> "none"], [kind |-> "nobootp"]}
    \cup {[kind |-> "bootp", xid |-> x, yiaddr |-> p[1], server_id |-> p[2]] :
            x \in Xids, p \in Payloads}

\* _build_dhcp_packet: the fields of the frame that depend on the arguments.
\* requested_addr and server_id are put in the options only when truthy.
_build_dhcp_packet(message_type, mac_address, x, requested_ip, server_id) ==
    [type |-> message_type,
     src |-> mac_address,
     dst |-> "ff:ff:ff:ff:ff:ff",
     chaddr |-> mac_address,
     xid |-> x,
     requested_addr |-> requested_ip,
     server_id |-> server_id]

\* Lines 76 and 98 read as a plausible slip: the xid is not compared.
Matches_AnyXid(resp, x) == resp.kind = "bootp"
\* Lines 73-77 and 95-99: a response is usable when it is there, has the
\* BOOTP layer and echoes this attempt's xid.
Matches(resp, x) == resp.kind = "bootp" /\ resp.xid = x

\* Lines 101-110: the lease built from the ack.
DhcpLease(ack) == [kind |-> "lease", assigned_ip |-> ack.yiaddr,
                   server_id |-> ack.server_id]

\* Lines 112-114: the error raised when the loop runs out.
ExhaustedError(n, i) ==
    [kind |-> "DhcpHandshakeError", msg |-> "No DHCP ACK received",
     attempts |-> n, iface |-> i]

\* The history of _send_and_receive (lines 117-124): a frame put on the
\* wire in attempt a, and what srp1 handed back for it.
Send(a, frame) == Append(trace, [ev |-> "send", attempt |-> a, frame |-> frame])
Recv(a, resp) ==
    Append(trace, [ev |-> "recv", attempt |-> a, resp |-> resp,
                   to |-> trace[Len(trace)].frame.type])

\* Line 62 read as a plausible slip: range(retries + 1).
LoopContinues_OffByOne(a, n) == a <= n
\* Line 62: for attempt in range(retries).
LoopContinues(a, n) == a < n

\* Line 63 read as a plausible slip: the xid drawn once, before the loop.
AttemptXid_Hoisted(prev, drawn) == IF prev < 0 THEN drawn ELSE prev
\* Line 63: xid = random.randint(0, 0xFFFFFFFF), inside the loop.
AttemptXid(prev, drawn) == drawn

\* Line 64 read as a plausible slip: an earlier attempt's offer is kept.
ReceivedOffer_Stale(old, resp) ==
    IF old.kind = "bootp" THEN old ELSE resp
\* Line 64: offer = _send_and_receive(...), rebound in every attempt.
ReceivedOffer(old, resp) == resp

\* Lines 55-61 read as a plausible slip: line 55 is missing, the privilege
\* is never checked.
HS_Preflight_NoPrivilegeCheck ==
    /\ hpc = "start"
    /\ LET i == IF interface # None THEN interface ELSE conf_iface IN
       IF i = None
         THEN /\ hpc' = "raised"
              /\ result' = [kind |-> "DhcpHandshakeError",
                            msg |-> "Missing network interface; pass --iface or configure Scapy."]
              /\ iface' = i
              /\ UNCHANGED client_mac
         ELSE /\ hpc' = "loop"
              /\ iface' = i
              /\ client_mac' = get_if_hwaddr(i)
              /\ UNCHANGED result
    /\ UNCHANGED <<euid, interface, conf_iface, retries, attempt, xid, offer,
                   xids, trace>>
    /\ UNCHANGED simvars
    /\ UNCHANGED genvars
\* Lines 55-61: privilege check, interface resolution, hardware address.
HS_Preflight ==
    /\ hpc = "start"
    /\ IF euid # 0
         THEN /\ hpc' = "raised"
              /\ result' = [kind |-> "PermissionError",
                            msg |-> "Scapy DHCP handshake must run as root or with CAP_NET_RAW."]
              /\ UNCHANGED <<iface, client_mac>>
         ELSE LET i == IF interface # None THEN interface ELSE conf_iface IN
              IF i = None
                THEN /\ hpc' = "raised"
                     /\ result' = [kind |-> "DhcpHandshakeError",
                                   msg |-> "Missing network interface; pass --iface or configure Scapy."]
                     /\ iface' = i
                     /\ UNCHANGED client_mac
                ELSE /\ hpc' = "loop"
                     /\ iface' = i
                     /\ client_mac' = get_if_hwaddr(i)
                     /\ UNCHANGED result
    /\ UNCHANGED <<euid, interface, conf_iface, retries, attempt, xid, offer,
                   xids, trace>>
    /\ UNCHANGED simvars
    /\ UNCHANGED genvars

\* Lines 62-72: the loop goes on, a fresh xid is drawn and the discover sent.
HS_SendDiscover ==
    /\ hpc = "loop"
    /\ LoopContinues(attempt, retries)
    /\ \E x \in Xids :
         /\ xid' = AttemptXid(xid, x)
         /\ xids' = Append(xids, x)
         /\ trace' = Send(attempt,
                _build_dhcp_packet("discover", client_mac, xid', None, None))
    /\ hpc' = "await_offer"
    /\ UNCHANGED <<euid, interface, conf_iface, retries, iface, client_mac,
                   attempt, offer, result>>
    /\ UNCHANGED simvars
    /\ UNCHANGED genvars

\* Lines 64-77: srp1 returns; a useless answer ends the attempt (continue).
HS_OfferReturns ==
    /\ hpc = "await_offer"
    /\ \E resp \in Responses :
         /\ trace' = Recv(attempt, resp)
         /\ offer' = ReceivedOffer(offer, resp)
         /\ IF Matches(offer', xid)
              THEN hpc' = "request" /\ UNCHANGED attempt
              ELSE hpc' = "loop" /\ attempt' = attempt + 1
    /\ UNCHANGED <<euid, interface, conf_iface, retries, iface, client_mac,
                   xid, result, xids>>
    /\ UNCHANGED simvars
    /\ UNCHANGED genvars

\* Lines 79-94: the request echoes the xid and the offer's address and server.
HS_SendRequest ==
    /\ hpc = "request"
    /\ trace' = Send(attempt,
            _build_dhcp_packet("request", client_mac, xid,
                               offer.yiaddr, offer.server_id))
    /\ hpc' = "await_ack"
    /\ UNCHANGED <<euid, interface, conf_iface, retries, iface, client_mac,
                   attempt, xid, offer, result, xids>>
    /\ UNCHANGED simvars
    /\ UNCHANGED genvars

\* Lines 90-110 read as a plausible slip: the lease is stored instead of
\* returned, and the loop goes on.
HS_AckReturns_KeepsGoing ==
    /\ hpc = "await_ack"
    /\ \E resp \in Responses :
         /\ trace' = Recv(attempt, resp)
         /\ result' = IF Matches(resp, xid) THEN DhcpLease(resp) ELSE result
         /\ hpc' = "loop"
         /\ attempt' = attempt + 1
    /\ UNCHANGED <<euid, interface, conf_iface, retries, iface, client_mac,
                   xid, offer, xids>>
    /\ UNCHANGED simvars
    /\ UNCHANGED genvars
\* Lines 90-110: srp1 returns; a matching ack gives the lease and ends the
\* call, anything else ends the attempt.
HS_AckReturns ==
    /\ hpc = "await_ack"
    /\ \E resp \in Responses :
         /\ trace' = Recv(attempt, resp)
         /\ IF Matches(resp, xid)
              THEN /\ hpc' = "returned"
                   /\ result' = DhcpLease(resp)
                   /\ UNCHANGED attempt
              ELSE /\ hpc' = "loop"
                   /\ attempt' = attempt + 1
                   /\ UNCHANGED result
    /\ UNCHANGED <<euid, interface, conf_iface, retries, iface, client_mac,
                   xid, offer, xids>>
    /\ UNCHANGED simvars
    /\ UNCHANGED genvars

\* Lines 112-114: range(retries) is used up.
HS_Exhausted ==
    /\ hpc = "loop"
    /\ ~LoopContinues(attempt, retries)
    /\ hpc' = "raised"
    /\ result' = ExhaustedError(retries, iface)
    /\ UNCHANGED <<euid, interface, conf_iface, retries, iface, client_mac,
                   attempt, xid, offer, xids, trace>>
    /\ UNCHANGED simvars
    /\ UNCHANGED genvars

\* The generator's variables while it is not the subject: the simulator
\* drives its own copy through produced.
GenIdle ==
    /\ gen_count = 0 /\ gen_prefix = <<>> /\ gen_seed = <<>>
    /\ gpc = "idle" /\ start_offset = <<0, 0>> /\ base_value = <<0, 0>>
    /\ call = 1 /\ yielded = << <<>>, <<>> >> /\ gen_end = <<"", "">>
    /\ global_rng = 0

\* The simulator's variables while a handshake is called directly.
SimIdle ==
    /\ count = 0 /\ concurrency = 0 /\ mac_prefix = <<>> /\ random_seed = <<>>
    /\ pc = "idle" /\ produced = 0 /\ pending = {}
    /\ successes = <<>> /\ failures = <<>> /\ raised = Nothing
    /\ fut = <<>> /\ completed = <<>> /\ recorded = <<>>

InitHS ==
    /\ euid \in Euids
    /\ interface \in Interfaces
    /\ conf_iface \in ConfIfaces
    /\ retries \in 0..MaxRetries
    /\ hpc = "start" /\ iface = None /\ client_mac = <<>>
    /\ attempt = 0 /\ xid = -1 /\ offer = [kind |-> "unbound"]
    /\ result = Nothing
    /\ xids = <<>> /\ trace = <<>>
    /\ SimIdle
    /\ GenIdle

NextHS ==
    \/ HS_Preflight
    \/ HS_SendDiscover
    \/ HS_OfferReturns
    \/ HS_SendRequest
    \/ HS_AckReturns
    \/ HS_Exhausted

SpecHS == InitHS /\ [][NextHS]_vars

\* =====================================================================
\* simulator.py
\* =====================================================================

\* ---- _iter_mac_addresses and its helpers (lines 121-176) --------------
\* A 48-bit value is kept as <<high 24 bits, low 24 bits>>.
W24 == 256 * 256 * 256
Min(a, b) == IF a < b THEN a ELSE b
PairLess(p, q) == p[1] < q[1] \/ (p[1] = q[1] /\ p[2] < q[2])
PairAdd(p, q) ==
    LET lo == p[2] + q[2] IN <<p[1] + q[1] + (lo \div W24), lo % W24>>
\* p - q, for q <= p.
PairSub(p, q) ==
    IF p[2] >= q[2] THEN <<p[1] - q[1], p[2] - q[2]>>
                    ELSE <<p[1] - q[1] - 1, p[2] + W24 - q[2]>>
PairOfInt(n) == <<n \div W24, n % W24>>

\* The mac_prefix argument: <<>> for None or the empty string (both are
\* falsy at line 126), or the string as the list of its ':'-separated
\* parts, each part the list of its characters' hex values (16: a character
\* int(part, 16) rejects).
MacPrefixes ==
    { <<>>,
      << <<0, 2>>, <<0, 0>>, <<0, 0>>, <<0, 0>>, <<15, 15>> >>,
      << <<0, 2>>, <<0, 0>>, <<0, 0>>, <<0, 0>>, <<0>>, <<15, 15>> >>,
      << <<0, 2>>, <<>> >>,
      << <<0, 2>>, <<1, 16>> >> }
\* The random_seed argument: <<>> for None, <<n>> for the integer n.
Seeds == {<<>>, <<42>>}

\* Lines 151-163: what makes _parse_mac_prefix raise ValueError.
ParseFails(prefix) ==
    \/ \E i \in 1..Len(prefix) : prefix[i] = <<>>
    \/ Len(prefix) > 6
    \/ \E i \in 1..Len(prefix) :
         \/ Len(prefix[i]) > 2
         \/ \E j \in 1..Len(prefix[i]) : prefix[i][j] > 15
\* Line 160: int(part, 16) of one or two hex digits.
HexInt(part) == IF Len(part) = 1 THEN part[1] ELSE 16 * part[1] + part[2]
\* Lines 156-164: the octets.
_parse_mac_prefix(prefix) == [i \in 1..Len(prefix) |-> HexInt(prefix[i])]
\* Line 126.
BaseBytes(prefix) == IF prefix # <<>> THEN _parse_mac_prefix(prefix) ELSE <<2>>
\* Lines 130-131: available = 1 << (remaining_octets * 8).
Available(remaining) ==
    CASE remaining = 0 -> <<0, 1>>
      [] remaining = 1 -> <<0, 256>>
      [] remaining = 2 -> <<0, 65536>>
      [] remaining = 3 -> <<1, 0>>
      [] remaining = 4 -> <<256, 0>>
      [] OTHER -> <<65536, 0>>
\* Lines 126-135 read as a plausible slip: the capacity test at line 132 is
\* missing.
GeneratorFails_NoCapacity(n, prefix) ==
    \/ prefix # <<>> /\ ParseFails(prefix)
    \/ Len(BaseBytes(prefix)) > 6
\* Lines 126-135 read as a plausible slip: line 132 tests
\* count > available + 1.
GeneratorFails_OffByOne(n, prefix) ==
    \/ prefix # <<>> /\ ParseFails(prefix)
    \/ Len(BaseBytes(prefix)) > 6
    \/ PairLess(PairAdd(Available(6 - Len(BaseBytes(prefix))), <<0, 1>>),
                PairOfInt(n))
\* Lines 126-135: the generator raises ValueError at its first next().
GeneratorFails(n, prefix) ==
    \/ prefix # <<>> /\ ParseFails(prefix)
    \/ Len(BaseBytes(prefix)) > 6
    \/ PairLess(Available(6 - Len(BaseBytes(prefix))), PairOfInt(n))
\* Half of a 48-bit value, rounded down.
PairHalf(p) == <<p[1] \div 2, ((p[1] % 2) * W24 + p[2]) \div 2>>
\* Line 140 read as a plausible slip: randint(0, n) for randrange(0, n), the
\* upper end included.
Randrange_Inclusive(state, n) ==
    CASE state[1] % 3 = 0 -> n
      [] state[1] % 3 = 1 -> <<0, 0>>
      [] OTHER -> PairHalf(n)
\* Line 140: randrange(0, n) of a generator in the given state <<s>>: a
\* fixed function of the state into [0, n). This one lands on the top of
\* the range, on its bottom or in its middle, by the state.
Randrange(state, n) ==
    CASE state[1] % 3 = 0 -> PairSub(n, <<0, 1>>)
      [] state[1] % 3 = 1 -> <<0, 0>>
      [] OTHER -> PairHalf(n)
\* Line 139 read as a plausible slip: the draw is made on the random
\* module's shared generator.
RngSource_Global(seed, shared) == <<shared>>
\* Line 139: rng = random.Random(random_seed), a generator of its own whose
\* state is set by the seed alone.
RngSource(seed, shared) == seed
\* Lines 137-140.
StartOffset(n, prefix, seed) ==
    LET remaining == 6 - Len(BaseBytes(prefix)) IN
    IF seed # <<>> /\ remaining > 0
      THEN Randrange(RngSource(seed, global_rng),
                     PairAdd(PairSub(Available(remaining), PairOfInt(n)),
                             <<0, 1>>))
      ELSE <<0, 0>>
\* Lines 142 and 167-171: _mac_bytes_to_int(base_bytes) << (remaining * 8).
BaseValue(prefix) ==
    LET b == BaseBytes(prefix)
        o == [i \in 1..6 |-> IF i <= Len(b) THEN b[i] ELSE 0]
    IN  <<o[1] * 65536 + o[2] * 256 + o[3], o[4] * 65536 + o[5] * 256 + o[6]>>
\* Lines 174-176: the six octets (value >> (8 * shift)) & 0xFF, high first;
\* the text form "%02x" joined by ':' is one-to-one with them.
_mac_int_to_str(v) ==
    << (v[1] \div 65536) % 256, (v[1] \div 256) % 256, v[1] % 256,
       (v[2] \div 65536) % 256, (v[2] \div 256) % 256, v[2] % 256 >>
\* Lines 143-145: the identity the generator yields at offset k.
MacAt(n, prefix, seed, k) ==
    _mac_int_to_str(PairAdd(PairAdd(BaseValue(prefix),
                                    StartOffset(n, prefix, seed)),
                            PairOfInt(k)))

\* ---- simulate_dhcp_clients (lines 37-118) -----------------------------

\* client.py lines 37-42: the parameters perform_handshake accepts.
PerformHandshakeParams == {"interface", "timeout", "retries"}
\* Lines 79-84: the keywords _worker passes.
WorkerKeywords == {"timeout", "retries", "client_mac"}
\* Lines 78-84: _worker(mac). The call passes client_mac, which
\* perform_handshake does not accept: Python raises TypeError when binding
\* the arguments, before the body runs, so no frame is sent and no hardware
\* address is ever taken from mac.
_worker(m) ==
    IF WorkerKeywords \subseteq PerformHandshakeParams
      THEN [kind |-> "not reached"]
      ELSE [kind |-> "TypeError",
            msg |-> "perform_handshake() got an unexpected keyword argument 'client_mac'",
            hwaddr |-> <<>>,
            frames |-> <<>>]

\* Line 76.
max_workers == Min(count, concurrency)

\* Line 90 read as a plausible slip: <= for <.
WindowHasRoom_OffByOne(n, w) == n <= w
\* Line 90: while len(pending) < max_workers.
WindowHasRoom(n, w) == n < w

\* Lines 100-110 read as a plausible slip: except Exception: pass.
Classify_Swallow(o) ==
    CASE o.kind = "lease" -> "success"
      [] o.kind = "KeyboardInterrupt" -> "raise"
      [] o.kind \in {"DhcpHandshakeError", "PermissionError"} -> "failure"
      [] OTHER -> "dropped"
\* Lines 100-110 read as a plausible slip: no except Exception clause.
Classify_NoCatchAll(o) ==
    CASE o.kind = "lease" -> "success"
      [] o.kind \in {"DhcpHandshakeError", "PermissionError"} -> "failure"
      [] OTHER -> "raise"
\* Lines 100-110: which clause of the try statement takes the outcome.
Classify(o) ==
    CASE o.kind = "lease" -> "success"
      [] o.kind = "KeyboardInterrupt" -> "raise"
      [] o.kind \in {"DhcpHandshakeError", "PermissionError"} -> "failure"
      [] OTHER -> "unexpected"

\* Lines 106, 108 and 110: the description stored with a failure.
Description(o) ==
    IF Classify(o) = "unexpected" THEN <<"unexpected error: ", o.msg>>
                                  ELSE <<o.msg>>

\* Line 98 read as a plausible slip: a future still running is taken as done.
IsCompleted_NotQueued(state) == state # "queued"
\* Line 98: as_completed yields only futures that have finished.
IsCompleted(state) == state = "finished"

\* Lines 92 and 113 read as a plausible slip: the generator ends one
\* identity early.
HasNext_OffByOne == produced < count - 1
\* Lines 92 and 113: next(mac_source) has something left to yield.
HasNext == produced < count
\* Lines 95 and 116: executor.submit(_worker, mac) with the next identity.
Submit ==
    /\ fut' = Append(fut, [mac |-> MacAt(count, mac_prefix, random_seed, produced),
                           state |-> "queued",
                           outcome |-> Nothing])
    /\ pending' = pending \cup {Len(fut) + 1}
    /\ produced' = produced + 1

\* Lines 68-76 read as a plausible slip: the interface is resolved here, once
\* for the whole run, as client.py lines 57-59 do for one handshake.
Sim_Validate_InterfaceCheck ==
    /\ pc = "start"
    /\ IF count <= 0 \/ concurrency <= 0
         THEN pc' = "raised"
              /\ raised' = [kind |-> "ValueError", msg |-> "must be positive."]
         ELSE IF interface = None /\ conf_iface = None
           THEN pc' = "raised"
                /\ raised' = [kind |-> "DhcpHandshakeError",
                              msg |-> "Missing network interface"]
           ELSE pc' = "fill" /\ UNCHANGED raised
    /\ UNCHANGED <<count, concurrency, mac_prefix, random_seed, produced,
                   pending, successes, failures, fut, completed, recorded>>
    /\ UNCHANGED hsvars
    /\ UNCHANGED genvars
\* Lines 68-76: the argument checks, then the executor is entered.
Sim_Validate ==
    /\ pc = "start"
    /\ IF count <= 0
         THEN pc' = "raised"
              /\ raised' = [kind |-> "ValueError", msg |-> "count must be positive."]
         ELSE IF concurrency <= 0
           THEN pc' = "raised"
                /\ raised' = [kind |-> "ValueError",
                              msg |-> "concurrency must be positive."]
           ELSE pc' = "fill" /\ UNCHANGED raised
    /\ UNCHANGED <<count, concurrency, mac_prefix, random_seed, produced,
                   pending, successes, failures, fut, completed, recorded>>
    /\ UNCHANGED hsvars
    /\ UNCHANGED genvars

\* Lines 90-95: one turn of the filling loop. The generator's own checks
\* (lines 126-135) run at the first next() and their ValueError leaves the
\* with block.
Sim_Fill ==
    /\ pc = "fill"
    /\ IF ~WindowHasRoom(Cardinality(pending), max_workers)
         THEN pc' = "wait"
              /\ UNCHANGED <<fut, pending, produced, raised>>
         ELSE IF produced = 0 /\ GeneratorFails(count, mac_prefix)
           THEN pc' = "exit"
                /\ raised' = [kind |-> "ValueError", msg |-> "MAC prefix"]
                /\ UNCHANGED <<fut, pending, produced>>
           ELSE IF ~HasNext
             THEN pc' = "wait"
                  /\ UNCHANGED <<fut, pending, produced, raised>>
             ELSE Submit /\ UNCHANGED <<pc, raised>>
    /\ UNCHANGED <<count, concurrency, mac_prefix, random_seed, successes,
                   failures, completed, recorded>>
    /\ UNCHANGED hsvars
    /\ UNCHANGED genvars

\* Lines 97-110: as_completed hands over one finished future of pending, it
\* is popped and its outcome goes through the try statement.
Sim_Collect ==
    /\ pc = "wait"
    /\ \E f \in pending :
         /\ IsCompleted(fut[f].state)
         /\ pending' = pending \ {f}
         /\ recorded' = Append(recorded, f)
         /\ LET o == fut[f].outcome
                c == Classify(o)
            IN  /\ successes' = IF c = "success"
                                  THEN Append(successes, <<fut[f].mac, o>>)
                                  ELSE successes
                /\ failures' = IF c \in {"failure", "unexpected"}
                                 THEN Append(failures, <<fut[f].mac, Description(o)>>)
                                 ELSE failures
                /\ IF c = "raise"
                     THEN pc' = "exit" /\ raised' = o
                     ELSE pc' = "replenish" /\ UNCHANGED raised
    /\ UNCHANGED <<count, concurrency, mac_prefix, random_seed, produced, fut,
                   completed>>
    /\ UNCHANGED hsvars
    /\ UNCHANGED genvars

\* Lines 112-116 read as a plausible slip: fixed batches, the next identities
\* wait until the whole window has been collected.
Sim_Replenish_Batch ==
    /\ pc = "replenish"
    /\ IF HasNext /\ pending = {}
         THEN Submit
         ELSE UNCHANGED <<fut, pending, produced>>
    /\ pc' = IF pending' = {} THEN "wait" ELSE IF HasNext /\ pending = {}
                                            THEN "fill" ELSE "wait"
    /\ UNCHANGED <<count, concurrency, mac_prefix, random_seed, successes,
                   failures, raised, completed, recorded>>
    /\ UNCHANGED hsvars
    /\ UNCHANGED genvars
\* Lines 112-116: the next identity, if any, takes the freed place.
Sim_Replenish ==
    /\ pc = "replenish"
    /\ IF HasNext THEN Submit ELSE UNCHANGED <<fut, pending, produced>>
    /\ pc' = "wait"
    /\ UNCHANGED <<count, concurrency, mac_prefix, random_seed, successes,
                   failures, raised, completed, recorded>>
    /\ UNCHANGED hsvars
    /\ UNCHANGED genvars

\* Line 97: pending is empty, the loop and the with block's body end.
Sim_LoopEnds ==
    /\ pc = "wait"
    /\ pending = {}
    /\ pc' = "exit"
    /\ UNCHANGED <<count, concurrency, mac_prefix, random_seed, produced,
                   pending, successes, failures, raised, fut, completed,
                   recorded>>
    /\ UNCHANGED hsvars
    /\ UNCHANGED genvars

\* A KeyboardInterrupt reaches the coordinating (main) thread inside the
\* with block: in the loops or in future.result(), where line 103 re-raises.
Sim_Interrupt ==
    /\ pc \in {"fill", "wait", "replenish"}
    /\ pc' = "exit"
    /\ raised' = [kind |-> "KeyboardInterrupt", msg |-> ""]
    /\ UNCHANGED <<count, concurrency, mac_prefix, random_seed, produced,
                   pending, successes, failures, fut, completed, recorded>>
    /\ UNCHANGED hsvars
    /\ UNCHANGED genvars

\* Line 87: leaving the with block runs ThreadPoolExecutor.__exit__, that is
\* shutdown(wait=True): every submitted handshake is run to its end before
\* the pending exception goes on to the caller or line 118 returns.
Sim_Exit ==
    /\ pc = "exit"
    /\ \A f \in 1..Len(fut) : fut[f].state = "finished"
    /\ pc' = IF raised = Nothing THEN "returned" ELSE "raised"
    /\ UNCHANGED <<count, concurrency, mac_prefix, random_seed, produced,
                   pending, successes, failures, raised, fut, completed,
                   recorded>>
    /\ UNCHANGED hsvars
    /\ UNCHANGED genvars

\* Lines 87 and 95: a thread of the pool (at most max_workers) takes a
\* submitted work item.
Worker_Start ==
    /\ \E f \in 1..Len(fut) :
         /\ fut[f].state = "queued"
         /\ Cardinality({g \in 1..Len(fut) : fut[g].state = "running"}) < max_workers
         /\ fut' = [fut EXCEPT ![f].state = "running"]
    /\ UNCHANGED <<count, concurrency, mac_prefix, random_seed, pc, produced,
                   pending, successes, failures, raised, completed, recorded>>
    /\ UNCHANGED hsvars
    /\ UNCHANGED genvars

\* Lines 78-84 read as a plausible slip: the worker thread itself appends
\* its failure to the shared list.
Worker_Finish_Appends ==
    /\ \E f \in 1..Len(fut) :
         /\ fut[f].state = "running"
         /\ fut' = [fut EXCEPT ![f].state = "finished",
                               ![f].outcome = _worker(fut[f].mac)]
         /\ completed' = Append(completed, f)
         /\ failures' = Append(failures,
                               <<fut[f].mac, Description(_worker(fut[f].mac))>>)
    /\ UNCHANGED <<count, concurrency, mac_prefix, random_seed, pc, produced,
                   pending, successes, raised, recorded>>
    /\ UNCHANGED hsvars
    /\ UNCHANGED genvars
\* Lines 78-84: _worker(mac) ends and the future gets its outcome.
Worker_Finish ==
    /\ \E f \in 1..Len(fut) :
         /\ fut[f].state = "running"
         /\ fut' = [fut EXCEPT ![f].state = "finished",
                               ![f].outcome = _worker(fut[f].mac)]
         /\ completed' = Append(completed, f)
    /\ UNCHANGED <<count, concurrency, mac_prefix, random_seed, pc, produced,
                   pending, successes, failures, raised, recorded>>
    /\ UNCHANGED hsvars
    /\ UNCHANGED genvars

\* perform_handshake's variables while the simulator runs: the worker's call
\* never gets into its body.
HsIdle ==
    /\ euid = 0 /\ retries = 1
    /\ hpc = "idle" /\ iface = None /\ client_mac = <<>>
    /\ attempt = 0 /\ xid = -1 /\ offer = [kind |-> "unbound"]
    /\ result = Nothing /\ xids = <<>> /\ trace = <<>>

Init ==
    /\ count \in 0..MaxCount
    /\ concurrency \in 0..MaxConcurrency
    /\ interface \in Interfaces
    /\ conf_iface = None
    /\ mac_prefix \in MacPrefixes
    /\ random_seed \in Seeds
    /\ pc = "start" /\ produced = 0 /\ pending = {}
    /\ successes = <<>> /\ failures = <<>> /\ raised = Nothing
    /\ fut = <<>> /\ completed = <<>> /\ recorded = <<>>
    /\ HsIdle
    /\ GenIdle

Next ==
    \/ Sim_Validate
    \/ Sim_Fill
    \/ Sim_Collect
    \/ Sim_Replenish
    \/ Sim_LoopEnds
    \/ Sim_Interrupt
    \/ Sim_Exit
    \/ Worker_Start
    \/ Worker_Finish

Spec == Init /\ [][Next]_vars

\* ---- simulate_dhcp_clients left to run ---------------------------------
\* The same call with no KeyboardInterrupt, the coordinating thread running
\* on and the pool's threads scheduled fairly: a submitted handshake is
\* eventually taken by a free thread, and a running one eventually ends
\* (each srp1 wait is bounded by timeout, the loop by retries).
Coordinator ==
    \/ Sim_Validate
    \/ Sim_Fill
    \/ Sim_Collect
    \/ Sim_Replenish
    \/ Sim_LoopEnds
    \/ Sim_Exit

NextLive ==
    \/ Coordinator
    \/ Worker_Start
    \/ Worker_Finish

\* The interface plays no part in how the run proceeds (the worker's call
\* fails before it is looked at), so one is named.
InitLive == Init /\ interface = "eth0"

LiveSpec ==
    /\ InitLive
    /\ [][NextLive]_vars
    /\ WF_vars(Coordinator)
    /\ WF_vars(Worker_Start)
    /\ WF_vars(Worker_Finish)

\* ---- _iter_mac_addresses as a generator (lines 121-145) ----------------

\* Largest of the small count arguments explored (0..MaxGenCount).
MaxGenCount == 3
\* Counts at the capacity of a five-octet prefix (1 << 8) and one above it.
EdgeCounts == {256, 257}
GenCounts == 0..MaxGenCount \cup EdgeCounts
\* Prefixes, in the encoding of MacPrefixes: those, "02:00:00", "a" and a
\* seven-part one.
GenPrefixes ==
    MacPrefixes \cup
    { << <<0, 2>>, <<0, 0>>, <<0, 0>> >>,
      << <<10>> >>,
      << <<0, 2>>, <<0, 0>>, <<0, 0>>, <<0, 0>>, <<0, 0>>, <<0, 0>>, <<0, 1>> >> }
\* No seed, and seeds whose generators land on the top and in the middle of
\* the range.
GenSeeds == {<<>>, <<42>>, <<5>>}
\* States of the random module's shared generator (a draw on it lands on
\* the top or on the bottom of the range).
SharedStates == 0..1

\* One next() on the generator. The first one runs lines 126-142: the
\* checks, whose ValueError ends the generator, then start_offset and
\* base_value. Every one runs the loop of lines 143-145 up to the next
\* yield, or off its end (StopIteration).
Gen_Next ==
    /\ gpc \in {"created", "suspended"}
    /\ IF gpc = "created" /\ GeneratorFails(gen_count, gen_prefix)
         THEN /\ gpc' = "raised"
              /\ gen_end' = [gen_end EXCEPT ![call] = "ValueError"]
              /\ UNCHANGED <<start_offset, base_value, yielded>>
         ELSE /\ start_offset' = IF gpc = "created"
                                   THEN StartOffset(gen_count, gen_prefix, gen_seed)
                                   ELSE start_offset
              /\ base_value' = IF gpc = "created" THEN BaseValue(gen_prefix)
                                                  ELSE base_value
              /\ IF Len(yielded[call]) < gen_count
                   THEN /\ yielded' =
                             [yielded EXCEPT ![call] =
                                 Append(@, _mac_int_to_str(
                                     PairAdd(PairAdd(base_value', start_offset'),
                                             PairOfInt(Len(@)))))]
                        /\ gpc' = "suspended"
                        /\ UNCHANGED gen_end
                   ELSE /\ gpc' = "ended"
                        /\ gen_end' = [gen_end EXCEPT ![call] = "StopIteration"]
                        /\ UNCHANGED yielded
    /\ UNCHANGED <<gen_count, gen_prefix, gen_seed, call, global_rng>>
    /\ UNCHANGED <<hsvars, simvars>>

\* Line 73 of a later run: _iter_mac_addresses is called again with the
\* same arguments.
Gen_CallAgain ==
    /\ gpc \in {"ended", "raised"}
    /\ call = 1
    /\ call' = 2
    /\ gpc' = "created"
    /\ start_offset' = <<0, 0>> /\ base_value' = <<0, 0>>
    /\ UNCHANGED <<gen_count, gen_prefix, gen_seed, yielded, gen_end,
                   global_rng>>
    /\ UNCHANGED <<hsvars, simvars>>

\* client.py line 63, in any thread: random.randint draws from the random
\* module's shared generator and so changes its state.
Shared_Randint ==
    /\ global_rng' = 1 - global_rng
    /\ UNCHANGED <<gen_count, gen_prefix, gen_seed, gpc, start_offset,
                   base_value, call, yielded, gen_end>>
    /\ UNCHANGED <<hsvars, simvars>>

InitGen ==
    /\ gen_count \in GenCounts
    /\ gen_prefix \in GenPrefixes
    /\ gen_seed \in GenSeeds
    /\ global_rng \in SharedStates
    /\ gpc = "created" /\ start_offset = <<0, 0>> /\ base_value = <<0, 0>>
    /\ call = 1 /\ yielded = << <<>>, <<>> >> /\ gen_end = <<"", "">>
    /\ SimIdle
    /\ interface = None /\ conf_iface = None
    /\ HsIdle

NextGen ==
    \/ Gen_Next
    \/ Gen_CallAgain
    \/ Shared_Randint

SpecGen == InitGen /\ [][NextGen]_vars

\* =====================================================================
\* Properties of perform_handshake (checked under SpecHS)
\* =====================================================================

HsDone == hpc \in {"returned", "raised"}
\* The call got past lines 55-59: privilege and an interface.
PreflightPassed ==
    euid = 0 /\ (IF interface # None THEN interface ELSE conf_iface) # None
TraceIdx == 1..Len(trace)
IsSend(i, type) == trace[i].ev = "send" /\ trace[i].frame.type = type
IsRecv(i, type) == trace[i].ev = "recv" /\ trace[i].to = type
Discovers == {i \in TraceIdx : IsSend(i, "discover")}
Requests == {i \in TraceIdx : IsSend(i, "request")}
\* The xid attempt a (0-based) drew.
XidOf(a) == xids[a + 1]
\* Answers to a discover (to a request) that echo their attempt's xid.
MatchingOffers ==
    {i \in TraceIdx : IsRecv(i, "discover")
                       /\ trace[i].resp.kind = "bootp"
                       /\ trace[i].resp.xid = XidOf(trace[i].attempt)}
MatchingAcks ==
    {i \in TraceIdx : IsRecv(i, "request")
                       /\ trace[i].resp.kind = "bootp"
                       /\ trace[i].resp.xid = XidOf(trace[i].attempt)}
\* Answers with the BOOTP layer whose xid is not their attempt's.
MismatchedOffers ==
    {i \in TraceIdx : IsRecv(i, "discover")
                       /\ trace[i].resp.kind = "bootp"
                       /\ trace[i].resp.xid # XidOf(trace[i].attempt)}
MismatchedAcks ==
    {i \in TraceIdx : IsRecv(i, "request")
                       /\ trace[i].resp.kind = "bootp"
                       /\ trace[i].resp.xid # XidOf(trace[i].attempt)}

\* C3: when no discover ever gets a matching offer, a call with retries = n
\* that passed its pre-flight checks sends no request, at most n discovers
\* while it runs, and ends by raising DhcpHandshakeError naming n and the
\* interface after exactly n discovers; it never returns a lease.
C3_NoOfferExhaustsRetries ==
    (PreflightPassed /\ MatchingOffers = {}) =>
        /\ Requests = {}
        /\ Cardinality(Discovers) <= retries
        /\ hpc # "returned"
        /\ HsDone =>
              /\ Cardinality(Discovers) = retries
              /\ result.kind = "DhcpHandshakeError"
              /\ result.attempts = retries
              /\ result.iface = (IF interface # None THEN interface
                                                     ELSE conf_iface)

\* C3 witness: two attempts, both answered without a matching offer (one of
\* them with a reply of another xid), and the call has raised.
C3_Witness ==
    /\ hpc = "raised" /\ PreflightPassed /\ retries = 2
    /\ MatchingOffers = {} /\ MismatchedOffers # {}
    /\ Cardinality(Discovers) = 2

\* C4 as claimed: the xids drawn by one call are pairwise distinct.
C4_XidsPairwiseDistinct ==
    \A i, j \in 1..Len(xids) : i # j => xids[i] # xids[j]

\* C4 as amended: every attempt draws its own xid at its start and its
\* discover carries exactly that draw (attempt k's discover is the k-th
\* discover and carries the k-th draw); nothing makes two draws differ.
C4_FreshDrawPerAttempt ==
    /\ Len(xids) = Cardinality(Discovers)
    /\ \A i \in Discovers :
         /\ trace[i].attempt + 1 <= Len(xids)
         /\ trace[i].frame.xid = XidOf(trace[i].attempt)
         /\ Cardinality({j \in Discovers : j <= i}) = trace[i].attempt + 1

\* C4 witness: a second attempt whose discover carries a second draw, equal
\* to the first attempt's xid.
C4_Witness ==
    /\ Len(xids) >= 2 /\ xids[1] = xids[2]
    /\ \E i \in Discovers : trace[i].attempt = 1 /\ trace[i].frame.xid = xids[2]

\* C5: an offer (an ack) with another xid is discarded. Its attempt sends no
\* request (gives no lease), it counts: the loop index has moved past it,
\* and the call goes on: once the call is over, the next attempt's discover
\* was sent if one remained, and a call that raised made all its attempts.
C5_MismatchDiscarded ==
    /\ \A i \in MismatchedOffers :
         /\ \A r \in Requests : trace[r].attempt # trace[i].attempt
         /\ attempt > trace[i].attempt
    /\ \A i \in MismatchedAcks :
         /\ attempt > trace[i].attempt
         /\ hpc = "returned" =>
               \E k \in MatchingAcks : k > i /\ trace[k].attempt > trace[i].attempt
    /\ \A i \in MismatchedOffers \cup MismatchedAcks :
         /\ (HsDone /\ trace[i].attempt + 1 < retries) =>
               \E d \in Discovers : d > i /\ trace[d].attempt = trace[i].attempt + 1
         /\ hpc = "raised" =>
               /\ result = ExhaustedError(retries, iface)
               /\ Cardinality(Discovers) = retries

\* C5 witness: a mismatched offer in the first attempt, a mismatched ack in
\* the second attempt, which was still made, and the call over.
C5_Witness ==
    /\ HsDone
    /\ \E i \in MismatchedOffers : trace[i].attempt = 0
    /\ \E i \in MismatchedAcks : trace[i].attempt = 1
    /\ Cardinality(Discovers) >= 2

\* C6: every request carries the xid of its own attempt's discover and the
\* address and server identifier of the offer received in that attempt,
\* which was a matching one; a lease is returned only when the offer and
\* the ack of one and the same attempt both carried that attempt's xid.
C6_AttemptsIndependent ==
    /\ \A r \in Requests :
         /\ \E d \in Discovers :
               /\ d < r /\ trace[d].attempt = trace[r].attempt
               /\ trace[d].frame.xid = trace[r].frame.xid
               /\ \A e \in Discovers : e > d => e > r
         /\ r > 1 /\ (r - 1) \in MatchingOffers
         /\ trace[r - 1].attempt = trace[r].attempt
         /\ trace[r].frame.requested_addr = trace[r - 1].resp.yiaddr
         /\ trace[r].frame.server_id = trace[r - 1].resp.server_id
    /\ hpc = "returned" =>
         /\ Len(trace) >= 4
         /\ Len(trace) \in MatchingAcks
         /\ (Len(trace) - 2) \in MatchingOffers
         /\ (Len(trace) - 3) \in Discovers
         /\ (Len(trace) - 1) \in Requests
         /\ \A k \in (Len(trace) - 3)..Len(trace) : trace[k].attempt = attempt
         /\ result.kind = "lease"
         /\ result.assigned_ip = trace[Len(trace)].resp.yiaddr

\* C6 witness: a first attempt whose offer matched but whose ack did not,
\* then a second attempt with another offer that ended in a lease.
C6_Witness ==
    /\ hpc = "returned" /\ attempt = 1
    /\ \E i \in MatchingOffers : \E j \in MatchingOffers :
         /\ trace[i].attempt = 0 /\ trace[j].attempt = 1
         /\ trace[i].resp.yiaddr # trace[j].resp.yiaddr
    /\ Cardinality(Requests) = 2

\* =====================================================================
\* Properties of simulate_dhcp_clients (checked under Spec)
\* =====================================================================

\* The identities _iter_mac_addresses yields for this call.
Identities == {MacAt(count, mac_prefix, random_seed, k) : k \in 0..(count - 1)}
\* How often identity m stands in successes and in failures.
Occurrences(m) ==
    Cardinality({i \in 1..Len(successes) : successes[i][1] = m})
    + Cardinality({i \in 1..Len(failures) : failures[i][1] = m})
\* SimulationResult.total (lines 18-20).
total == Len(successes) + Len(failures)
\* Handshakes dispatched and not yet completed.
InFlight == {f \in 1..Len(fut) : fut[f].state # "finished"}
\* Futures whose outcome the coordinator has taken.
Collected == {f \in 1..Len(fut) : f \notin pending}
Range(seq) == {seq[i] : i \in 1..Len(seq)}

\* C1: when simulate_dhcp_clients returns, every identity the allocator
\* produced stands exactly once in successes and failures taken together,
\* nothing else stands there, and total equals count.
C1_EveryIdentityOnce ==
    pc = "returned" =>
        /\ Cardinality(Identities) = count
        /\ \A m \in Identities : Occurrences(m) = 1
        /\ \A i \in 1..Len(successes) : successes[i][1] \in Identities
        /\ \A i \in 1..Len(failures) : failures[i][1] \in Identities
        /\ total = count

\* C1 witness: a run of three clients over two workers, from a seeded
\* block, has returned.
C1_Witness ==
    /\ pc = "returned" /\ count = 3 /\ concurrency = 2 /\ random_seed # <<>>
    /\ total = 3

\* C2: at every moment the handshakes dispatched and not yet completed are
\* at most min(count, concurrency).
C2_InFlightBounded ==
    Cardinality(InFlight) <= Min(count, concurrency)

\* C2 witness: count above concurrency, the window full, and an identity
\* already replaced by a later one.
C2_Witness ==
    /\ count > concurrency /\ concurrency = 2
    /\ Cardinality(InFlight) = 2
    /\ Len(fut) = 3

\* C7 as claimed: the handshake the simulator dispatched for identity m runs
\* with m as its client hardware address, and every frame it sends carries m.
C7_FramesCarryIdentity ==
    \A f \in 1..Len(fut) :
        fut[f].state = "finished" =>
            /\ fut[f].outcome.hwaddr = fut[f].mac
            /\ \A i \in 1..Len(fut[f].outcome.frames) :
                 fut[f].outcome.frames[i].chaddr = fut[f].mac

\* C8: every outcome the coordinator has taken is filed under its identity:
\* a lease in successes, a DhcpHandshakeError or PermissionError in failures
\* with its description, any other exception in failures tagged
\* "unexpected error: "; none of them ends the run: the only exceptions that
\* leave the simulator are the pre-flight ValueError (raised before anything
\* was dispatched) and the interrupt, the place an outcome frees is refilled
\* while identities remain, and a run that returns has dispatched them all.
C8_OutcomesClassified ==
    /\ \A f \in Collected :
         LET o == fut[f].outcome
             m == fut[f].mac
         IN  /\ o.kind = "lease" =>
                   \E i \in 1..Len(successes) : successes[i] = <<m, o>>
             /\ o.kind \in {"DhcpHandshakeError", "PermissionError"} =>
                   \E i \in 1..Len(failures) : failures[i] = <<m, <<o.msg>> >>
             /\ o.kind \notin {"lease", "DhcpHandshakeError", "PermissionError",
                               "KeyboardInterrupt"} =>
                   \E i \in 1..Len(failures) :
                       failures[i] = <<m, <<"unexpected error: ", o.msg>> >>
    /\ raised.kind \in {"none", "ValueError", "KeyboardInterrupt"}
    /\ (raised.kind = "ValueError" => Len(fut) = 0)
    /\ (pc \in {"wait", "replenish"} /\ Collected # {} /\ produced < count) =>
           (pc = "replenish" \/ Cardinality(pending) = max_workers)
    /\ pc = "returned" => (produced = count /\ Len(fut) = count)

\* C8 witness: an exception that is no DhcpHandshakeError was filed as an
\* unexpected failure and an identity was dispatched after it.
C8_Witness ==
    /\ Len(failures) >= 1
    /\ failures[1][2][1] = "unexpected error: "
    /\ Len(fut) > max_workers
    /\ recorded # <<>> /\ recorded[1] < Len(fut)

\* C9 as claimed: once the interrupt has reached the simulator it surfaces
\* to the caller without waiting for the handshakes still in flight.
C9_InterruptDoesNotWait ==
    (pc = "exit" /\ raised.kind = "KeyboardInterrupt") => ENABLED Sim_Exit

\* C10 as claimed: outcomes are recorded in completion order: what the
\* coordinator has recorded is the beginning of the completion sequence.
C10_CompletionOrder ==
    /\ Len(recorded) <= Len(completed)
    /\ \A i \in 1..Len(recorded) : recorded[i] = completed[i]

\* C10 as amended: the coordinator records one outcome at a time, and only
\* of a handshake that has completed and is not yet recorded; so a handshake
\* recorded while another has not completed comes before it, and two that
\* both completed before the coordinator looked may come in either order.
C10_RecordedAfterCompletion ==
    [][recorded' # recorded =>
          \E f \in Range(completed) :
              /\ f \notin Range(recorded)
              /\ recorded' = Append(recorded, f)]_vars

\* C10 witness: two handshakes completed in one order and were recorded in
\* the other.
C10_Witness ==
    /\ Len(completed) >= 2 /\ Len(recorded) >= 2
    /\ recorded[1] = completed[2] /\ recorded[2] = completed[1]

\* C11: the scheduler is a sliding window. After the coordinator has
\* recorded an outcome its next step is the replenishing one, which
\* dispatches exactly one identity when one remains and none otherwise, and
\* nothing else is collected in between; so whenever the coordinator waits
\* for a completion while identities remain undispatched, exactly
\* min(count, concurrency) handshakes are dispatched and unrecorded.
C11_SlidingWindow ==
    /\ []((pc = "wait" /\ produced < count) =>
              Cardinality(pending) = Min(count, concurrency))
    /\ [][(recorded' # recorded /\ pc' # "exit") => pc' = "replenish"]_vars
    /\ [][pc = "replenish" =>
            /\ recorded' = recorded
            /\ pc' = "wait" =>
                 IF produced < count
                   THEN /\ Len(fut') = Len(fut) + 1
                        /\ pending' = pending \cup {Len(fut')}
                        /\ produced' = produced + 1
                   ELSE fut' = fut /\ pending' = pending]_vars

\* C11 witness: four clients over two workers, one outcome recorded, its
\* place taken by the third identity, a fourth still undispatched, and the
\* coordinator waiting with the window full.
C11_Witness ==
    /\ pc = "wait" /\ concurrency = 2 /\ count > 3
    /\ Len(recorded) = 1 /\ produced = 3
    /\ Cardinality(pending) = 2

\* C12: pre-flight failures of simulate_dhcp_clients start no work. When
\* count <= 0, or concurrency <= 0, or the prefix is malformed, or count
\* exceeds the capacity of the prefix, the call never returns a result, the
\* exception it leaves with is a ValueError (or the user's own interrupt, if
\* one arrived first), and at no point has an identity been taken or a
\* handshake been dispatched.
C12_PreflightStartsNoWork ==
    LET malformed == mac_prefix # <<>> /\ ParseFails(mac_prefix)
        overfull  == ~malformed /\
                     PairLess(Available(6 - Len(BaseBytes(mac_prefix))),
                              PairOfInt(count))
    IN  (count <= 0 \/ concurrency <= 0 \/ malformed \/ overfull) =>
            /\ fut = <<>> /\ pending = {} /\ produced = 0
            /\ successes = <<>> /\ failures = <<>>
            /\ pc \in {"start", "fill", "exit", "raised"}
            /\ pc \in {"exit", "raised"} =>
                   raised.kind \in {"ValueError", "KeyboardInterrupt"}

\* C12 witness: two clients asked of a fully specified six-octet prefix; the
\* capacity error has reached the caller and nothing was dispatched.
C12_Witness ==
    /\ count = 2 /\ concurrency > 0
    /\ Len(mac_prefix) = 6 /\ ~ParseFails(mac_prefix)
    /\ pc = "raised" /\ raised.kind = "ValueError"
    /\ fut = <<>>

\* No interface passed and none configured (client.py lines 57-58).
MissingInterface == interface = None /\ conf_iface = None

\* C13 as claimed: with no interface passed and none configured,
\* simulate_dhcp_clients never returns a SimulationResult.
C13_MissingInterfaceAborts ==
    MissingInterface => pc # "returned"

\* C13 as the source has it: a missing interface does not abort the run.
\* The call leaves with an exception only for its own argument errors or an
\* interrupt; no dispatched handshake sends a frame; and when the call
\* returns, every identity has been dispatched and recorded as a failure,
\* so the result has total = count and no success.
C13_MissingInterfaceRecorded ==
    MissingInterface =>
        /\ raised.kind \in {"none", "ValueError", "KeyboardInterrupt"}
        /\ \A f \in 1..Len(fut) :
               fut[f].state = "finished" => fut[f].outcome.frames = <<>>
        /\ pc = "returned" =>
               /\ produced = count /\ pending = {}
               /\ successes = <<>> /\ Len(failures) = count
               /\ total = count

\* C13 witness: no interface anywhere, three clients over two workers, and
\* the call has returned a result holding three failures.
C13_Witness ==
    /\ MissingInterface
    /\ count = 3 /\ concurrency = 2
    /\ pc = "returned" /\ Len(failures) = 3

EchoesXid(i) ==
    trace[i].resp.kind = "bootp" /\ trace[i].resp.xid = trace[i - 1].frame.xid

\* C18: the frames of one call form a strictly sequential trace. Sends and
\* returns of the wait alternate, so at most one send/await step is
\* outstanding, and one is outstanding exactly while the call waits; a
\* discover other than the first follows the return of the previous
\* attempt's last wait; a request follows directly the matching offer to the
\* discover of its own attempt; a matching ack is the last entry and the
\* call has returned; discovers <= retries and requests <= discovers.
C18_StrictlySequential ==
    /\ \A i \in TraceIdx : (trace[i].ev = "send") <=> (i % 2 = 1)
    /\ (Len(trace) % 2 = 1) <=> (hpc \in {"await_offer", "await_ack"})
    /\ \A i \in TraceIdx :
         trace[i].ev = "recv" => trace[i].attempt = trace[i - 1].attempt
    /\ \A i \in Discovers :
         IF i = 1 THEN trace[i].attempt = 0
         ELSE /\ trace[i - 1].ev = "recv"
              /\ ~EchoesXid(i - 1)
              /\ trace[i].attempt = trace[i - 1].attempt + 1
    /\ \A i \in Requests :
         /\ i > 2
         /\ IsRecv(i - 1, "discover") /\ EchoesXid(i - 1)
         /\ IsSend(i - 2, "discover")
         /\ trace[i - 2].attempt = trace[i].attempt
         /\ trace[i].frame.xid = trace[i - 2].frame.xid
    /\ \A i \in TraceIdx :
         (IsRecv(i, "request") /\ EchoesXid(i)) =>
             i = Len(trace) /\ hpc = "returned"
    /\ hpc = "returned" =>
         Len(trace) > 0 /\ IsRecv(Len(trace), "request") /\ EchoesXid(Len(trace))
    /\ Cardinality(Discovers) <= retries
    /\ Cardinality(Requests) <= Cardinality(Discovers)

\* C18 witness: the first attempt of a call that allows more got its offer
\* and its ack; the call returned after one discover and one request, with
\* attempts remaining.
C18_Witness ==
    /\ hpc = "returned" /\ attempt + 1 < retries
    /\ Cardinality(Discovers) = 1 /\ Cardinality(Requests) = 1
    /\ Len(trace) = 4

\* C19: the result aggregate has a single writer. Every step that changes
\* successes or failures is the coordinator's collecting step (taken while
\* it waits, recording one future), appends exactly one entry to exactly one
\* of the two lists, and is not a step of a worker; every step of a worker
\* (a future changes its state) leaves both lists as they are. So no two
\* writes to the aggregate are concurrent.
C19_SingleWriter ==
    /\ [][(successes' # successes \/ failures' # failures) =>
            /\ pc = "wait" /\ pc' \in {"replenish", "exit"}
            /\ Len(recorded') = Len(recorded) + 1
            /\ \A f \in 1..Len(fut) : fut'[f].state = fut[f].state
            /\ Len(fut') = Len(fut) /\ completed' = completed
            /\ \/ /\ failures' = failures
                  /\ Len(successes') = Len(successes) + 1
                  /\ SubSeq(successes', 1, Len(successes)) = successes
               \/ /\ successes' = successes
                  /\ Len(failures') = Len(failures) + 1
                  /\ SubSeq(failures', 1, Len(failures)) = failures]_vars
    /\ [][(\E f \in 1..Len(fut) : fut'[f].state # fut[f].state) =>
            successes' = successes /\ failures' = failures]_vars

\* C19 witness: the coordinator has written one entry to the aggregate while
\* one handshake is running in a worker thread and another has finished
\* without being collected yet.
C19_Witness ==
    /\ Len(successes) + Len(failures) = 1
    /\ \E f \in 1..Len(fut) : fut[f].state = "running"
    /\ \E f \in 1..Len(fut) : fut[f].state = "finished" /\ f \in pending

\* =====================================================================
\* Properties of _iter_mac_addresses (checked under SpecGen)
\* =====================================================================

\* The number an address stands for, as <<high 24 bits, low 24 bits>>.
MacValue(m) ==
    <<m[1] * 65536 + m[2] * 256 + m[3], m[4] * 65536 + m[5] * 256 + m[6]>>
\* 256^k, for k in 0..5.
Pow256(k) ==
    CASE k = 0 -> <<0, 1>>
      [] k = 1 -> <<0, 256>>
      [] k = 2 -> <<0, 256 * 256>>
      [] k = 3 -> <<1, 0>>
      [] k = 4 -> <<256, 0>>
      [] OTHER -> <<256 * 256, 0>>
\* The octets the addresses are to begin with: those of the prefix, or the
\* single octet 02 when no prefix is given (line 126).
PrefixOctets == BaseBytes(gen_prefix)
\* The prefix is well formed and has one to six octets.
PrefixValid ==
    /\ ~(gen_prefix # <<>> /\ ParseFails(gen_prefix))
    /\ Len(PrefixOctets) \in 1..6
\* The address space left under the prefix.
Space == Pow256(6 - Len(PrefixOctets))
\* count exceeds 256^(6 - prefix length).
OverCapacity == PrefixValid /\ PairLess(Space, PairOfInt(gen_count))

C15_Deterministic ==
    /\ \A i \in 1..Len(yielded[2]) :
           i <= Len(yielded[1]) /\ yielded[2][i] = yielded[1][i]
    /\ (gen_end[1] # "" /\ gen_end[2] # "") =>
           yielded[2] = yielded[1] /\ gen_end[2] = gen_end[1]
    /\ (gen_seed = <<>> /\ PrefixValid) =>
           \A c \in 1..2 :
               Len(yielded[c]) > 0 =>
                   yielded[c][1] = [i \in 1..6 |->
                                       IF i <= Len(PrefixOctets)
                                         THEN PrefixOctets[i] ELSE 0]

\* C15 witness: both calls for three addresses under "02:00:00" with seed 5
\* have ended, with a block that does not start at the base value.
C15_Witness ==
    /\ gen_count = 3 /\ gen_seed = <<5>>
    /\ gen_prefix = << <<0, 2>>, <<0, 0>>, <<0, 0>> >>
    /\ gen_end = <<"StopIteration", "StopIteration">>
    /\ Len(yielded[2]) = 3
    /\ yielded[2][1] # <<2, 0, 0, 0, 0, 0>>

ValidInput ==
    /\ count > 0 /\ concurrency > 0
    /\ ~(mac_prefix # <<>> /\ ParseFails(mac_prefix))
    /\ Len(BaseBytes(mac_prefix)) <= 6
    /\ ~PairLess(Pow256(6 - Len(BaseBytes(mac_prefix))), PairOfInt(count))

\* C20: with valid input, no interrupt and fair scheduling, the call
\* eventually returns a SimulationResult holding one entry per identity,
\* with no handshake in flight and no identity left undispatched; and no
\* handshake ever performs more than 2 * retries send/await steps.
C20_EventuallyReturns ==
    /\ (ValidInput /\ pc = "start") ~>
           (/\ pc = "returned"
            /\ InFlight = {} /\ pending = {}
            /\ produced = count /\ total = count)
    /\ [](\A f \in 1..Len(fut) :
             fut[f].state = "finished" =>
                 Len(fut[f].outcome.frames) <= 2 * retries)

\* C20 witness: four clients through a single worker; the call has returned
\* with all four dispatched and recorded and nothing in flight.
C20_Witness ==
    /\ ValidInput /\ count = 4 /\ concurrency = 1
    /\ pc = "returned"
    /\ InFlight = {} /\ produced = 4 /\ total = 4

====
